---- MODULE Spec2Model ----
(***************************************************************************)
(* GptService (the "conversation session"): a transcript, a single-flight  *)
(* guard, a retry loop around a streaming completion request, and the      *)
(* events it emits.  Text is a sequence of one-character strings so that   *)
(* trim() and slice(-1) are computed, not assumed.  The bullet character   *)
(* U+2022 that the code tests for is written "*" here.                     *)
(* App (the text-to-speech page): the isLoading state around                *)
(* handlePlayClick, with the callbacks, timers and engine events that reset *)
(* it.                                                                     *)
(***************************************************************************)
EXTENDS Integers, Sequences, FiniteSets, TLC

\* ------------------------------------------------------------------ bounds
MaxCalls == 2       \* completion() invocations of one session
MaxChunks == 2      \* chunks delivered to one session (Spec, SpecRetry)
MaxFailures == 1    \* provider failures of one session (Spec, SpecStream)
MaxRetryFailures == 3   \* provider failures of one session (SpecRetry)
MaxFragments == 3   \* chunks delivered to one session (SpecStream)
MaxEarlier == 4     \* exchanges a session has had before (SpecTrim)
MaxClicks == 2      \* handlePlayClick() invocations on one page (SpecPage)

\* --------------------------------------------------------------- constants
maxRetries == 3
contextLimit == 10
callbackDelay == 500
safetyDelay == 10000

Marker == "*"
\* What String.prototype.trim strips: the WhiteSpace and LineTerminator
\* characters of ECMAScript.  Those that cannot be written in a string here
\* are named by their code point, one element of a text each.
WhiteSpace ==
  {" ", "\t", "\n", "\f", "\r", "U+000B", "U+00A0", "U+FEFF", "U+2028",
   "U+2029", "U+1680", "U+2000", "U+2001", "U+2002", "U+2003", "U+2004",
   "U+2005", "U+2006", "U+2007", "U+2008", "U+2009", "U+200A", "U+202F",
   "U+205F", "U+3000"}

\* ------------------------------------------------------------------ inputs
CallIds == 1..MaxCalls
Texts == {<<"h", "i">>}
Roles == {"user"}
StreamRoles == {"user", "function"}
CallSids == {"CA1"}
EventNames == {"gptreply", "error"}
\* App: what the textarea can hold, what the window offers (chrome.tts,
\* speechSynthesis, or neither), the events of a speech engine, the delays of
\* the two setTimeout calls.
PageTexts == {<<>>, <<" ", "\n">>, <<"h", "i">>}
Windows == {"tts", "speechSynthesis", "none"}
SpeechEvents == {"start", "end", "error"}
Delays == {callbackDelay, safetyDelay}

\* What the provider can put in one chunk: choices[0].delta.content and
\* choices[0].finish_reason ("null" is the JSON null of a non-final chunk).
Chunk(content, finish_reason) ==
  [content |-> content, finish_reason |-> finish_reason]

\* The chunks of the sessions that run concurrently (Spec).
Chunks == {Chunk(<<"a">>, "null"), Chunk(<<"b", Marker>>, "stop")}

\* The chunks of the sessions used one call at a time (SpecStream).
exampleStream ==
  <<Chunk(<<"a", "b">>, "null"), Chunk(<<"c", Marker>>, "null"),
    Chunk(<<"d", "e", "f", Marker>>, "stop")>>
StreamChunks ==
  {exampleStream[i] : i \in 1..3} \cup
  {Chunk(<<"d", "e", "f", Marker>>, "null"),
   Chunk(<<"a", Marker, "b">>, "null"),
   Chunk(<<" ", Marker, " ">>, "null"),
   Chunk(<<"a", Marker, "\n">>, "null"),
   Chunk(<<" ", "\n">>, "null"),
   Chunk(<<>>, "stop"),
   Chunk(<<>>, "length")}

\* ----------------------------------------------------------------- strings
Min(S) == CHOOSE x \in S : \A y \in S : x <= y
Max(S) == CHOOSE x \in S : \A y \in S : x >= y

\* String.prototype.trim
trim(s) ==
  LET keep == {i \in 1..Len(s) : s[i] \notin WhiteSpace}
  IN IF keep = {} THEN <<>> ELSE SubSeq(s, Min(keep), Max(keep))

\* String.prototype.slice(-1)
sliceLast(s) == IF Len(s) = 0 THEN <<>> ELSE <<s[Len(s)]>>

\* ------------------------------------------------------------------- state
VARIABLES
  userContext,            \* this.userContext: sequence of {role, content}
  partialResponseIndex,   \* this.partialResponseIndex
  callSid,                \* this.callSid
  isProcessing,           \* this.isProcessing
  listeners,              \* events that have a listener attached
  calls,                  \* one record per completion() invocation
  events,                 \* every emit() that ran, in order
  lastQuery,              \* what the last shouldResetContext() returned
  pageText,               \* App: the text state (the textarea)
  isLoading,              \* App: the isLoading state
  window,                 \* App: the speech API the window offers
  pending,                \* App: callbacks, timers and utterances to come
  clicks                  \* App: handlePlayClick() invocations so far

sessionVars == <<userContext, partialResponseIndex, callSid, isProcessing,
                 listeners, calls, events>>
pageVars == <<pageText, isLoading, window, pending, clicks>>
vars == <<sessionVars, lastQuery, pageVars>>

systemTurn ==
  [role |-> "system",
   content |-> <<"You can only talk in 8 words max. Your name is Aiden Suh. You are from South Korea. You are a student at the University of Waterloo.">>]
greetingTurn == [role |-> "assistant", content |-> <<"H", "e", "l", "l", "o", "!">>]
seedContext == <<systemTurn, greetingTurn>>

fallbackText ==
  <<"I apologize, but I'm having trouble processing your request. ", Marker,
    " Could you please repeat that?">>

noError == [call |-> 0, attempt |-> 0]

\* A completion() that has not been invoked yet.  pc is where the call is:
\* "new", "create" (awaiting create()), "stream" (awaiting the next chunk),
\* "backoff" (awaiting the timer), then "returned", "rejected" (the promise
\* rejected) or "dropped" (returned at the guard).  text, role,
\* interactionCount, retryCount, completeResponse and partialResponse are the
\* arguments and locals of the call; the other fields keep what happened:
\* requests made, messages of the last request, chunks sent by the provider in
\* the current attempt and the number in all attempts, the backoff delays, the
\* error of the last failure, the index at the start of the current attempt.
newCall ==
  [pc |-> "new", text |-> <<>>, role |-> "user", interactionCount |-> 0,
   retryCount |-> 0, completeResponse |-> <<>>, partialResponse |-> <<>>,
   requests |-> 0, messages |-> <<>>, sent |-> <<>>, delays |-> <<>>,
   chunks |-> 0, error |-> noError, startIndex |-> 0]

\* No shouldResetContext() call yet.
noAnswer == [asked |-> FALSE, length |-> 0, answer |-> FALSE]

\* No speak() callback, timer or utterance outstanding.
nothingPending ==
  [callbacks |-> 0, timers |-> [d \in Delays |-> 0], queued |-> 0, speaking |-> 0]

\* The App component as mounted in a window w.
InitPage(w) ==
  /\ pageText = <<>>
  /\ isLoading = FALSE
  /\ window = w
  /\ pending = nothingPending
  /\ clicks = 0

\* A GptService as constructed (in Node, where there is no window).
Init ==
  /\ userContext = seedContext
  /\ partialResponseIndex = 0
  /\ callSid = "null"
  /\ isProcessing = FALSE
  /\ listeners = {}
  /\ calls = [c \in CallIds |-> newCall]
  /\ events = <<>>
  /\ lastQuery = noAnswer
  /\ InitPage("none")

\* ------------------------------------------------------------------ events
\* An emit() as the log keeps it: the payload of the code, and the call and
\* the attempt that emitted it.
replyEvent(c, index, text) ==
  [type |-> "gptreply", call |-> c, attempt |-> calls[c].requests,
   partialResponseIndex |-> index, partialResponse |-> text,
   callSid |-> callSid, interactionCount |-> calls[c].interactionCount,
   error |-> noError]

errorEvent(c, err) ==
  [type |-> "error", call |-> c, attempt |-> calls[c].requests,
   partialResponseIndex |-> -1, partialResponse |-> <<>>,
   callSid |-> "null", interactionCount |-> -1, error |-> err]

\* ------------------------------------------------------- session operations
\* EventEmitter.on(name, listener), called by the owner of the session.
on(name) ==
  /\ name \notin listeners
  /\ listeners' = listeners \cup {name}
  /\ UNCHANGED <<userContext, partialResponseIndex, callSid, isProcessing,
                 calls, events>>
  /\ UNCHANGED <<lastQuery, pageVars>>

setCallSid(sid) ==
  /\ callSid # sid
  /\ callSid' = sid
  /\ UNCHANGED <<userContext, partialResponseIndex, isProcessing, listeners,
                 calls, events>>
  /\ UNCHANGED <<lastQuery, pageVars>>

C10_KeepOne(ctx) == SubSeq(ctx, 1, 1)

\* this.userContext.slice(0, 2)
keptContext(ctx) == SubSeq(ctx, 1, Min({2, Len(ctx)}))

C15_ResetReleases ==
  /\ userContext' = keptContext(userContext)
  /\ partialResponseIndex' = 0
  /\ isProcessing' = FALSE
  /\ UNCHANGED <<callSid, listeners, calls, events>>
  /\ UNCHANGED <<lastQuery, pageVars>>

resetContext ==
  /\ userContext' = keptContext(userContext)
  /\ partialResponseIndex' = 0
  /\ UNCHANGED <<callSid, isProcessing, listeners, calls, events>>
  /\ UNCHANGED <<lastQuery, pageVars>>

cleanup ==
  /\ userContext' = keptContext(userContext)
  /\ partialResponseIndex' = 0
  /\ listeners' = {}
  /\ isProcessing' = FALSE
  /\ UNCHANGED <<callSid, calls, events>>
  /\ UNCHANGED <<lastQuery, pageVars>>

C16_AtLimit == Len(userContext) >= contextLimit

\* return this.userContext.length > 10
shouldResetContext == Len(userContext) > contextLimit

\* The owner calls shouldResetContext() and keeps the answer.
askShouldReset ==
  /\ lastQuery' = [asked |-> TRUE, length |-> Len(userContext),
                   answer |-> shouldResetContext]
  /\ UNCHANGED <<sessionVars, pageVars>>

C11_Unshift(ctx, turn) == <<turn>> \o ctx

\* this.userContext.push(turn)
push(ctx, turn) == Append(ctx, turn)

\* ------------------------------------------------------------- completion
\* The guard at the top of completion().
alreadyProcessing == isProcessing

C13_LastTurnOnly(ctx) == SubSeq(ctx, Len(ctx), Len(ctx))

\* messages: this.userContext
requestMessages(ctx) == ctx

\* The request of one attempt: openai.chat.completions.create is called with
\* the transcript as it is at that moment.
request(call) ==
  [call EXCEPT !.pc = "create", !.requests = @ + 1,
               !.messages = requestMessages(userContext),
               !.sent = <<>>, !.startIndex = partialResponseIndex]

\* completion(text, interactionCount, role) up to its first await.
completion(c, text, role) ==
  /\ calls[c].pc = "new"
  /\ \A d \in CallIds : d < c => calls[d].pc # "new"
  /\ IF alreadyProcessing
       THEN /\ calls' = [calls EXCEPT ![c].pc = "dropped", ![c].text = text,
                                      ![c].role = role,
                                      ![c].interactionCount = c]
            /\ UNCHANGED <<userContext, partialResponseIndex, callSid,
                           isProcessing, listeners, events>>
       ELSE /\ isProcessing' = TRUE
            /\ userContext' = push(userContext, [role |-> role, content |-> text])
            /\ calls' = [calls EXCEPT ![c] =
                 LET started == [@ EXCEPT !.text = text, !.role = role,
                                          !.interactionCount = c]
                 IN [request(started) EXCEPT
                       !.messages = requestMessages(userContext')]]
            /\ UNCHANGED <<partialResponseIndex, callSid, listeners, events>>
  /\ UNCHANGED <<lastQuery, pageVars>>

C4_StaleResponse(call) == call.completeResponse

\* let completeResponse = "" at the start of an attempt
freshResponse(call) == <<>>

\* The awaited create() resolves with a stream.
createOk(c) ==
  /\ calls[c].pc = "create"
  /\ calls' = [calls EXCEPT ![c].pc = "stream",
                            ![c].completeResponse = freshResponse(calls[c]),
                            ![c].partialResponse = <<>>]
  /\ UNCHANGED <<userContext, partialResponseIndex, callSid, isProcessing,
                 listeners, events>>
  /\ UNCHANGED <<lastQuery, pageVars>>

C17_AnyMarker(chunk) ==
  \/ \E i \in 1..Len(chunk.content) : chunk.content[i] = Marker
  \/ chunk.finish_reason = "stop"

\* The test of line 81 on one chunk.
shouldEmit(chunk) ==
  \/ sliceLast(trim(chunk.content)) = <<Marker>>
  \/ chunk.finish_reason = "stop"

C5_Untrimmed(partial) == partial

\* partialResponse.trim(), the text of an emitted segment
emittedText(partial) == trim(partial)

C6_SameIndex(index) == index

\* this.partialResponseIndex++
nextIndex(index) == index + 1

\* One iteration of the for-await loop.
onChunk(c, chunk) ==
  /\ calls[c].pc = "stream"
  /\ LET complete == calls[c].completeResponse \o chunk.content
         partial == calls[c].partialResponse \o chunk.content
     IN IF shouldEmit(chunk)
          THEN /\ events' = Append(events,
                              replyEvent(c, partialResponseIndex, emittedText(partial)))
               /\ partialResponseIndex' = nextIndex(partialResponseIndex)
               /\ calls' = [calls EXCEPT ![c].completeResponse = complete,
                                         ![c].partialResponse = <<>>,
                                         ![c].sent = Append(@, chunk),
                                         ![c].chunks = @ + 1]
          ELSE /\ calls' = [calls EXCEPT ![c].completeResponse = complete,
                                         ![c].partialResponse = partial,
                                         ![c].sent = Append(@, chunk),
                                         ![c].chunks = @ + 1]
               /\ UNCHANGED <<events, partialResponseIndex>>
  /\ UNCHANGED <<userContext, callSid, isProcessing, listeners>>
  /\ UNCHANGED <<lastQuery, pageVars>>

C9_StillBusy == TRUE

\* finally { this.isProcessing = false }
released == FALSE

\* The stream ends: the assistant turn is pushed, the loop exits, finally runs.
streamEnd(c) ==
  /\ calls[c].pc = "stream"
  /\ userContext' = push(userContext,
                      [role |-> "assistant", content |-> calls[c].completeResponse])
  /\ isProcessing' = released
  /\ calls' = [calls EXCEPT ![c].pc = "returned"]
  /\ UNCHANGED <<partialResponseIndex, callSid, listeners, events>>
  /\ UNCHANGED <<lastQuery, pageVars>>

C14_OffByOne(retryCount) == (2 ^ (retryCount - 1)) * 1000

\* Math.pow(2, retryCount) * 1000
backoffMs(retryCount) == (2 ^ retryCount) * 1000

\* retryCount === this.maxRetries, after the increment
exhausted(retryCount) == retryCount = maxRetries

\* What the outer catch emits when the "error" event has a listener.
fatalEvents(c, err) ==
  <<errorEvent(c, err), replyEvent(c, partialResponseIndex, fallbackText)>>

\* The inner catch (and, on the last attempt, the outer catch and finally),
\* entered because create() rejected or the stream threw.
onFailure(c, err) ==
  /\ calls[c].pc \in {"create", "stream"}
  /\ LET n == calls[c].retryCount + 1
     IN IF exhausted(n)
          THEN /\ isProcessing' = released
               /\ IF "error" \in listeners
                    THEN /\ events' = events \o fatalEvents(c, err)
                         /\ calls' = [calls EXCEPT ![c].pc = "returned",
                                                   ![c].retryCount = n,
                                                   ![c].error = err]
                    ELSE \* emit("error") without a listener throws
                         /\ calls' = [calls EXCEPT ![c].pc = "rejected",
                                                   ![c].retryCount = n,
                                                   ![c].error = err]
                         /\ UNCHANGED events
          ELSE /\ calls' = [calls EXCEPT ![c].pc = "backoff",
                                         ![c].retryCount = n,
                                         ![c].error = err,
                                         ![c].delays = Append(@, backoffMs(n))]
               /\ UNCHANGED <<isProcessing, events>>
  /\ UNCHANGED <<userContext, partialResponseIndex, callSid, listeners>>
  /\ UNCHANGED <<lastQuery, pageVars>>

\* The backoff timer fires and the while loop starts the next attempt.
retry(c) ==
  /\ calls[c].pc = "backoff"
  /\ calls' = [calls EXCEPT ![c] = request(@)]
  /\ UNCHANGED <<userContext, partialResponseIndex, callSid, isProcessing,
                 listeners, events>>
  /\ UNCHANGED <<lastQuery, pageVars>>

\* ---------------------------------------------------------------- provider
RECURSIVE SumOver(_, _)
SumOver(S, f) ==
  IF S = {} THEN 0
  ELSE LET x == CHOOSE y \in S : TRUE IN f[x] + SumOver(S \ {x}, f)

\* How much the provider has delivered and failed so far.
delivered == SumOver(CallIds, [c \in CallIds |-> calls[c].chunks])
failures == SumOver(CallIds, [c \in CallIds |-> calls[c].retryCount])

\* The error with which the provider fails the current attempt of call c.
providerError(c) == [call |-> c, attempt |-> calls[c].requests]

\* ---------------------------------------------------------- specification
\* A session whose owner calls anything at any time.
Next ==
  \/ \E name \in EventNames : on(name)
  \/ \E sid \in CallSids : setCallSid(sid)
  \/ resetContext
  \/ cleanup
  \/ \E c \in CallIds, text \in Texts, role \in Roles : completion(c, text, role)
  \/ \E c \in CallIds : createOk(c)
  \/ \E c \in CallIds, ch \in Chunks : delivered < MaxChunks /\ onChunk(c, ch)
  \/ \E c \in CallIds : streamEnd(c)
  \/ \E c \in CallIds : failures < MaxFailures /\ onFailure(c, providerError(c))
  \/ \E c \in CallIds : retry(c)

Spec == Init /\ [][Next]_vars

\* A session used one call after the other and never reset, with a provider
\* that fails often enough to exhaust the retries of a call.  Only the
\* listener of "error" decides what the code does then.
NextRetry ==
  \/ on("error")
  \/ \E c \in CallIds, text \in Texts, role \in Roles : completion(c, text, role)
  \/ \E c \in CallIds : createOk(c)
  \/ \E c \in CallIds, ch \in Chunks : delivered < MaxChunks /\ onChunk(c, ch)
  \/ \E c \in CallIds : streamEnd(c)
  \/ \E c \in CallIds :
       failures < MaxRetryFailures /\ onFailure(c, providerError(c))
  \/ \E c \in CallIds : retry(c)

SpecRetry == Init /\ [][NextRetry]_vars

\* The provider answers or fails every request, delivers or ends every
\* stream, and every backoff timer fires.
providerStep(c) ==
  \/ createOk(c)
  \/ \E ch \in Chunks : delivered < MaxChunks /\ onChunk(c, ch)
  \/ streamEnd(c)
  \/ failures < MaxRetryFailures /\ onFailure(c, providerError(c))
  \/ retry(c)

FairRetry == SpecRetry /\ \A c \in CallIds : WF_vars(providerStep(c))

\* One call of a session that is not reset meanwhile, with the streams of
\* the provider in full.
NextStream ==
  \/ \E text \in Texts, role \in StreamRoles : completion(1, text, role)
  \/ createOk(1)
  \/ \E ch \in StreamChunks : delivered < MaxFragments /\ onChunk(1, ch)
  \/ streamEnd(1)
  \/ failures < MaxFailures /\ onFailure(1, providerError(1))
  \/ retry(1)

SpecStream == Init /\ [][NextStream]_vars

\* A session that has had k exchanges before: k times a submitted turn and
\* the answer "b*" that one chunk with the stop signal leaves, each emitted
\* as one segment.
RECURSIVE exchanges(_)
exchanges(k) ==
  IF k = 0 THEN <<>>
  ELSE exchanges(k - 1)
       \o <<[role |-> "user", content |-> <<"h", "i">>],
            [role |-> "assistant", content |-> <<"b", Marker>>]>>

InitTrim ==
  /\ \E k \in 0..MaxEarlier :
       /\ userContext = seedContext \o exchanges(k)
       /\ partialResponseIndex = k
  /\ callSid = "null"
  /\ isProcessing = FALSE
  /\ listeners = {}
  /\ calls = [c \in CallIds |-> newCall]
  /\ events = <<>>
  /\ lastQuery = noAnswer
  /\ InitPage("none")

\* A session of any age whose owner asks shouldResetContext() at any time.
NextTrim ==
  \/ askShouldReset
  \/ resetContext
  \/ \E c \in CallIds, text \in Texts, role \in Roles : completion(c, text, role)
  \/ \E c \in CallIds : createOk(c)
  \/ \E c \in CallIds : streamEnd(c)

SpecTrim == InitTrim /\ [][NextTrim]_vars

\* ---------------------------------------------------------------- App page
\* onChange of the textarea: setText(e.target.value)
setText(t) ==
  /\ pageText # t
  /\ pageText' = t
  /\ UNCHANGED <<isLoading, window, pending, clicks, sessionVars, lastQuery>>

C20_TimerKeepsLoading == isLoading

\* setIsLoading(false) in the callback of a setTimeout
afterTimer == FALSE

\* handlePlayClick().  throws says whether the speech API of the window
\* throws when it is called.
handlePlayClick(throws) ==
  /\ clicks' = clicks + 1
  /\ IF trim(pageText) = <<>>
       THEN UNCHANGED <<isLoading, pending>>
       ELSE IF window = "none" \/ throws
         THEN \* setIsLoading(true), then setIsLoading(false) in the else
              \* branch or in the catch
              /\ isLoading' = FALSE
              /\ UNCHANGED pending
         ELSE /\ isLoading' = TRUE
              /\ pending' =
                   IF window = "tts"
                     THEN [pending EXCEPT !.callbacks = @ + 1, !.queued = @ + 1]
                     ELSE [pending EXCEPT !.queued = @ + 1,
                                          !.timers[safetyDelay] = @ + 1]
  /\ UNCHANGED <<pageText, window, sessionVars, lastQuery>>

\* chrome.tts runs the callback of speak(): the 500 ms timer is set.
speakCallback ==
  /\ pending.callbacks > 0
  /\ pending' = [pending EXCEPT !.callbacks = @ - 1,
                                !.timers[callbackDelay] = @ + 1]
  /\ UNCHANGED <<pageText, isLoading, window, clicks, sessionVars, lastQuery>>

\* A timer set by handlePlayClick fires.
timerFires(d) ==
  /\ pending.timers[d] > 0
  /\ pending' = [pending EXCEPT !.timers[d] = @ - 1]
  /\ isLoading' = afterTimer
  /\ UNCHANGED <<pageText, window, clicks, sessionVars, lastQuery>>

\* The engine reports an event of an utterance: onEvent of chrome.tts, or
\* onend / onerror of the utterance.
speechEvent(type) ==
  /\ \/ /\ type = "start"
        /\ pending.queued > 0
        /\ pending' = [pending EXCEPT !.queued = @ - 1, !.speaking = @ + 1]
        /\ UNCHANGED isLoading
     \/ /\ type \in {"end", "error"}
        /\ pending.speaking > 0
        /\ pending' = [pending EXCEPT !.speaking = @ - 1]
        /\ isLoading' = FALSE
     \/ /\ type = "error"
        /\ pending.queued > 0
        /\ pending' = [pending EXCEPT !.queued = @ - 1]
        /\ isLoading' = FALSE
  /\ UNCHANGED <<pageText, window, clicks, sessionVars, lastQuery>>

\* The page in any of the three kinds of window.
InitApp ==
  /\ \E w \in Windows : InitPage(w)
  /\ userContext = seedContext
  /\ partialResponseIndex = 0
  /\ callSid = "null"
  /\ isProcessing = FALSE
  /\ listeners = {}
  /\ calls = [c \in CallIds |-> newCall]
  /\ events = <<>>
  /\ lastQuery = noAnswer

NextApp ==
  \/ \E t \in PageTexts : setText(t)
  \/ \E throws \in BOOLEAN : clicks < MaxClicks /\ handlePlayClick(throws)
  \/ speakCallback
  \/ \E d \in Delays : timerFires(d)
  \/ \E type \in SpeechEvents : speechEvent(type)

SpecApp == InitApp /\ [][NextApp]_vars

\* chrome.tts runs every callback and every timer fires; the engine owes no
\* event.
FairApp ==
  SpecApp /\ WF_vars(speakCallback) /\ \A d \in Delays : WF_vars(timerFires(d))

TypeOK ==
  /\ partialResponseIndex \in Nat
  /\ isProcessing \in BOOLEAN
  /\ listeners \subseteq EventNames
  /\ Len(userContext) >= 2

\* ------------------------------------------------------------ vocabulary
inFlight(c) == calls[c].pc \in {"create", "stream", "backoff"}
finished(c) == calls[c].pc \in {"returned", "rejected"}
succeeded(c) == calls[c].pc = "returned" /\ calls[c].retryCount < maxRetries
ranOut(c) == finished(c) /\ calls[c].retryCount = maxRetries

repliesOf(c) ==
  SelectSeq(events, LAMBDA e : e.call = c /\ e.type = "gptreply")
errorsOf(c) ==
  SelectSeq(events, LAMBDA e : e.call = c /\ e.type = "error")
fallbacksOf(c) ==
  SelectSeq(repliesOf(c), LAMBDA e : e.partialResponse = fallbackText)
assistantTurns(ctx) ==
  Cardinality({i \in 1..Len(ctx) : ctx[i].role = "assistant"})

RECURSIVE Concat(_)
Concat(chunks) ==
  IF chunks = <<>> THEN <<>>
  ELSE Head(chunks).content \o Concat(Tail(chunks))

\* -------------------------------------------------------------------- C1
\* C1 (as claimed): at any time at most one completion() call of a session
\* is in flight, also when reset or cleanup run during a call.
C1_SingleFlight == Cardinality({c \in CallIds : inFlight(c)}) <= 1

\* -------------------------------------------------------------------- C2
\* C2 (as claimed): a call whose every attempt failed has made exactly
\* maxRetries requests, has emitted exactly one fallback gptreply and exactly
\* one error event, which carries the error of the last attempt, and has
\* added no assistant turn to the transcript.
C2_ExhaustionFallback ==
  /\ \A c \in CallIds :
       ranOut(c) =>
         /\ calls[c].requests = maxRetries
         /\ Len(fallbacksOf(c)) = 1
         /\ Len(errorsOf(c)) = 1
         /\ errorsOf(c)[1].error = calls[c].error
  /\ assistantTurns(userContext)
       <= 1 + Cardinality({c \in CallIds : succeeded(c)})

\* -------------------------------------------------------------------- C3
\* C3 (as claimed): no completion() call ends in a rejected promise, and a
\* call whose retries ran out has emitted the fallback gptreply, whether or
\* not the error event has a listener.
C3_NeverRejects ==
  \A c \in CallIds :
    /\ calls[c].pc # "rejected"
    /\ ranOut(c) => fallbacksOf(c) # <<>>

\* -------------------------------------------------------------------- C4
\* C4: the step that completes a call after f < maxRetries failed attempts
\* is its (f+1)-th request, the call has emitted no error event and no
\* fallback, and the step appends exactly one assistant turn, whose content
\* is the concatenation of the fragments of that attempt alone; no other
\* step adds an assistant turn.
C4_Completes(c) == ~finished(c) /\ succeeded(c)'
C4_RetryThenSuccess ==
  [][/\ \A c \in CallIds :
         C4_Completes(c) =>
           /\ calls'[c].requests = calls'[c].retryCount + 1
           /\ errorsOf(c)' = <<>>
           /\ fallbacksOf(c)' = <<>>
           /\ userContext' =
                Append(userContext,
                       [role |-> "assistant",
                        content |-> Concat(calls[c].sent)])
     /\ (\A c \in CallIds : ~C4_Completes(c)) =>
           assistantTurns(userContext') <= assistantTurns(userContext)
    ]_vars

\* A call that failed twice, once after it had received a fragment, and then
\* completed a stream.
C4_Witness ==
  \E c \in CallIds :
    /\ succeeded(c)
    /\ calls[c].retryCount = 2
    /\ calls[c].sent # <<>>
    /\ calls[c].chunks > Len(calls[c].sent)
    /\ userContext[Len(userContext)] =
         [role |-> "assistant", content |-> Concat(calls[c].sent)]

\* -------------------------------------------------------------------- C5
\* The gptreply events of the current attempt of call c, the fallback apart.
attemptReplies(c) ==
  SelectSeq(repliesOf(c),
            LAMBDA e : e.attempt = calls[c].requests
                       /\ e.partialResponse # fallbackText)
textsOf(replies) == [i \in 1..Len(replies) |-> replies[i].partialResponse]
indexesOf(replies) == [i \in 1..Len(replies) |-> replies[i].partialResponseIndex]

\* A fragment whose text, trimmed, ends with the marker.
endsWithMarker(content) ==
  LET t == trim(content) IN Len(t) > 0 /\ t[Len(t)] = Marker
triggers(ch) == endsWithMarker(ch.content) \/ ch.finish_reason = "stop"

\* The segments a stream is cut into: the text since the previous cut,
\* trimmed, at every chunk that triggers.
RECURSIVE segmentsFrom(_, _)
segmentsFrom(chunks, buffer) ==
  IF chunks = <<>> THEN <<>>
  ELSE LET b == buffer \o Head(chunks).content
       IN IF triggers(Head(chunks))
            THEN <<trim(b)>> \o segmentsFrom(Tail(chunks), <<>>)
            ELSE segmentsFrom(Tail(chunks), b)

\* C5 (as claimed): the fragments "ab", "c*", "def*", the last with the stop
\* signal, are emitted as the two segments "abc" and "def".
C5_MarkerDropped ==
  calls[1].sent = exampleStream =>
    textsOf(attemptReplies(1)) = << <<"a", "b", "c">>, <<"d", "e", "f">> >>

\* C5 (amended): every segment carries the trimmed text received since the
\* previous emission of the attempt, the marker included; the fragments
\* "ab", "c*", "def*" with stop are emitted as "abc*" and "def*".
C5_BoundaryEmission ==
  /\ textsOf(attemptReplies(1)) = segmentsFrom(calls[1].sent, <<>>)
  /\ calls[1].sent = exampleStream =>
       textsOf(attemptReplies(1)) =
         << <<"a", "b", "c", Marker>>, <<"d", "e", "f", Marker>> >>

\* The example stream has been received and the call has completed.
C5_Witness ==
  /\ calls[1].sent = exampleStream
  /\ succeeded(1)
  /\ Len(attemptReplies(1)) = 2

\* -------------------------------------------------------------------- C6
markerCount(text) == Cardinality({i \in 1..Len(text) : text[i] = Marker})
stopsAtEnd(chunks) ==
  /\ chunks # <<>>
  /\ \A i \in 1..Len(chunks) :
       chunks[i].finish_reason = "stop" <=> i = Len(chunks)

\* C6 (as claimed): a stream that completes at the first attempt, holds k
\* markers and ends with the stop signal fires k+1 gptreply events, or k if
\* the text ends on a marker, with indexes increasing by one from the index
\* at the start of the call.
C6_MarkersCounted ==
  (succeeded(1) /\ calls[1].retryCount = 0 /\ stopsAtEnd(calls[1].sent)) =>
    LET text == Concat(calls[1].sent)
        k == markerCount(text)
        n == Len(attemptReplies(1))
    IN /\ n = IF endsWithMarker(text) THEN k ELSE k + 1
       /\ indexesOf(attemptReplies(1)) = [i \in 1..n |-> i - 1]

\* C6 (amended): a completed stream has fired one gptreply event for every
\* chunk whose own text, trimmed, ends with the marker or that carries stop;
\* with stop on the last chunk only that is k+1 events, k being the number
\* of earlier chunks that end with the marker; the indexes increase by one
\* from the index at the start of the successful attempt.
C6_SegmentCount ==
  succeeded(1) =>
    LET s == calls[1].sent
        n == Len(attemptReplies(1))
        k == Cardinality({i \in 1..(Len(s) - 1) : endsWithMarker(s[i].content)})
    IN /\ n = Cardinality({i \in 1..Len(s) : triggers(s[i])})
       /\ stopsAtEnd(s) => n = k + 1
       /\ indexesOf(attemptReplies(1)) =
            [i \in 1..n |-> calls[1].startIndex + i - 1]

\* A stream completed at the second attempt, after the failed attempt had
\* emitted a segment; its text ends on a marker, with stop in a chunk of
\* its own.
C6_Witness ==
  /\ succeeded(1)
  /\ calls[1].startIndex > 0
  /\ stopsAtEnd(calls[1].sent)
  /\ Len(calls[1].sent) = 2
  /\ endsWithMarker(calls[1].sent[1].content)
  /\ calls[1].sent[2].content = <<>>

\* -------------------------------------------------------------------- C7
\* C7 (as claimed): no gptreply event other than the fallback comes from an
\* attempt that failed.
C7_NoPartialOutput ==
  \A i \in 1..Len(events) :
    LET e == events[i] IN
    (e.type = "gptreply" /\ e.partialResponse # fallbackText) =>
      /\ e.attempt = calls[e.call].requests
      /\ calls[e.call].pc \in {"stream", "returned"}
      /\ ~ranOut(e.call)

\* -------------------------------------------------------------------- C8
allReplies == SelectSeq(events, LAMBDA e : e.type = "gptreply")

\* C8 (as claimed), for a session that is never reset: the index has been
\* incremented once for every gptreply emitted, the fallback included, and
\* no two gptreply events carry the same index.
C8_IndexPerEmission ==
  /\ partialResponseIndex = Len(allReplies)
  /\ \A i, j \in 1..Len(allReplies) :
       i # j => allReplies[i].partialResponseIndex
                  # allReplies[j].partialResponseIndex

\* -------------------------------------------------------------------- C9
\* C9: the step that ends a call leaves isProcessing false, whether the call
\* completed, ran out of retries or threw out of the catch block; a busy
\* session becomes idle again; and a call made to an idle session, also
\* after a call that ran out of retries, is accepted.
C9_BusyReleased ==
  /\ [][\A c \in CallIds :
          /\ (inFlight(c) /\ finished(c)') => ~isProcessing'
          /\ (calls[c].pc = "new" /\ calls'[c].pc # "new" /\ ~isProcessing)
               => calls'[c].pc = "create"]_vars
  /\ isProcessing ~> ~isProcessing

\* A call ran out of retries, another threw from the catch block, or the
\* same; a later call was accepted and completed, and the session is idle.
C9_Witness ==
  \E c, d \in CallIds :
    /\ c < d
    /\ ranOut(c)
    /\ succeeded(d)
    /\ ~isProcessing

\* ------------------------------------------------------------------- C10
\* C10: a step of resetContext (on its own or in cleanup) leaves the
\* transcript equal to the system turn and the greeting, and the index 0.
C10_ResetInvariant ==
  [][(resetContext \/ cleanup) =>
       /\ userContext' = seedContext
       /\ Len(userContext') = 2
       /\ partialResponseIndex' = 0]_vars

\* The transcript has been reset after a call had added turns to it and
\* segments had been emitted.
C10_Witness ==
  /\ userContext = seedContext
  /\ partialResponseIndex = 0
  /\ \E c \in CallIds : succeeded(c) /\ repliesOf(c) # <<>>
\* ------------------------------------------------------------------- C11
IsPrefix(s, t) == Len(s) <= Len(t) /\ SubSeq(t, 1, Len(s)) = s

\* C11: in every state the transcript has at least two turns and begins with
\* the system turn followed by the seed greeting; and every step that is not
\* a step of resetContext() or cleanup() only appends: the transcript before
\* the step is a prefix of the transcript after it.
C11_SeededAppendOnly ==
  /\ [](Len(userContext) >= 2 /\ userContext[1] = systemTurn
                              /\ userContext[2] = greetingTurn)
  /\ [][~(resetContext \/ cleanup) => IsPrefix(userContext, userContext')]_vars

\* A call was accepted and answered: two turns were appended to the seed.
C11_Witness ==
  /\ \E c \in CallIds : succeeded(c)
  /\ Len(userContext) >= 4
  /\ userContext[3].role = "user"

\* ------------------------------------------------------------------- C12
\* C12: the reply-segment events of one call are emitted in strictly
\* increasing partialResponseIndex order, and no event of another call lies
\* between two of them, whatever the owner of the session does meanwhile.
C12_OrderedUninterleaved ==
  \A i \in 1..Len(events), j \in 1..Len(events) :
    (/\ i < j
     /\ events[i].type = "gptreply" /\ events[j].type = "gptreply"
     /\ events[i].call = events[j].call)
    => /\ events[i].partialResponseIndex < events[j].partialResponseIndex
       /\ \A k \in i..j : events[k].call = events[i].call

\* ------------------------------------------------------------------- C13
accepted(c) == calls[c].pc \notin {"new", "dropped"}
submittedTurns(ctx) ==
  Cardinality({i \in 3..Len(ctx) : ctx[i].role \in Roles})

\* C13: the step that accepts a completion() appends exactly the turn
\* {role, content: text} and makes the first request after it; every request,
\* the first and each retry, carries the whole transcript of that moment; a
\* retry appends nothing; an assistant turn, the text of the attempt, is
\* appended exactly by the step that completes an attempt; and nothing else
\* is ever recorded, the fallback text in particular.
C13_TurnRecording ==
  /\ [][\A c \in CallIds :
         /\ (~accepted(c) /\ accepted(c)') =>
               /\ userContext' = Append(userContext,
                                   [role |-> calls'[c].role, content |-> calls'[c].text])
               /\ calls'[c].requests = 1
               /\ calls'[c].messages = userContext'
         /\ (accepted(c) /\ calls'[c].requests # calls[c].requests) =>
               /\ calls'[c].requests = calls[c].requests + 1
               /\ calls'[c].messages = userContext
               /\ userContext' = userContext
         /\ (~finished(c) /\ succeeded(c)') =>
               userContext' = Append(userContext,
                                [role |-> "assistant",
                                 content |-> Concat(calls[c].sent)])]_vars
  /\ [](/\ submittedTurns(userContext)
            = Cardinality({c \in CallIds : accepted(c)})
         /\ assistantTurns(userContext)
            = 1 + Cardinality({c \in CallIds : succeeded(c)})
         /\ Len(userContext)
            = 1 + submittedTurns(userContext) + assistantTurns(userContext)
         /\ \A i \in 1..Len(userContext) : userContext[i].content # fallbackText)

\* One call ran out of retries and emitted the fallback, the other one was
\* answered.
C13_Witness ==
  \E c \in CallIds, d \in CallIds :
    /\ ranOut(c) /\ fallbacksOf(c) # <<>> /\ calls[c].requests = maxRetries
    /\ succeeded(d)

\* ------------------------------------------------------------------- C14
\* The waits of a call after its failed attempts 1..n, as the claim has them.
powerWaits(n) == [k \in 1..n |-> (2 ^ k) * 1000]

\* C14 as stated: after each failed attempt n of a call the session waits
\* 2^n seconds (2 s, 4 s, 8 s for attempts 1 to 3), and a call never makes
\* more than maxRetries requests.
C14_WaitAfterEveryFailure ==
  \A c \in CallIds :
    /\ calls[c].delays = powerWaits(calls[c].retryCount)
    /\ calls[c].requests <= 3

\* C14, amended: the session waits 2^n seconds after failed attempt n only
\* when another attempt follows, that is for n < maxRetries: 2 s after the
\* first failure and 4 s after the second; the third failure ends the call
\* without a wait.  A call never makes more than maxRetries requests.
C14_BackoffSchedule ==
  \A c \in CallIds :
    /\ calls[c].delays = powerWaits(Min({calls[c].retryCount, maxRetries - 1}))
    /\ calls[c].delays \in {<<>>, <<2000>>, <<2000, 4000>>}
    /\ calls[c].requests <= maxRetries
    /\ calls[c].requests <= calls[c].retryCount + 1

\* A call failed three times: it has waited twice and made three requests.
C14_Witness ==
  \E c \in CallIds :
    /\ ranOut(c) /\ calls[c].retryCount = 3
    /\ calls[c].delays = <<2000, 4000>> /\ calls[c].requests = 3

\* ------------------------------------------------------------------- C15
\* C15: a step of resetContext() changes nothing but the transcript and the
\* index: isProcessing, callSid, the listeners (and the calls in progress and
\* the event log) stay as they are.  A step of cleanup() has the effect of
\* resetContext() on the transcript and the index, removes every listener
\* and clears isProcessing; callSid stays as it is.
C15_FrameEffects ==
  [][/\ resetContext =>
          /\ isProcessing' = isProcessing
          /\ callSid' = callSid
          /\ listeners' = listeners
          /\ calls' = calls /\ events' = events
     /\ cleanup =>
          /\ userContext' = SubSeq(userContext, 1, 2)
          /\ partialResponseIndex' = 0
          /\ listeners' = {}
          /\ isProcessing' = FALSE
          /\ callSid' = callSid
          /\ calls' = calls /\ events' = events]_vars

\* cleanup() ran while the only call was in flight and after it had emitted
\* a segment: the call is still there, the flag is clear, the index is back
\* at 0, the listeners are gone and the callSid set before is still set.
C15_Witness ==
  /\ inFlight(1) /\ calls[2].pc = "new"
  /\ repliesOf(1) # <<>>
  /\ ~isProcessing /\ listeners = {} /\ callSid = "CA1"
  /\ userContext = seedContext /\ partialResponseIndex = 0

\* ------------------------------------------------------------------- C17
\* C17: at every chunk the code emits a segment exactly when the rule on the
\* running buffer says so: the buffer with the chunk's text added, trimmed,
\* ends with the marker, or the chunk carries the stop signal.  A marker that
\* is not the last character of the trimmed buffer triggers nothing.
C17_TriggerEquivalence ==
  [][calls'[1].chunks # calls[1].chunks =>
       LET ch == calls'[1].sent[Len(calls'[1].sent)]
           buffer == calls[1].partialResponse \o ch.content
       IN /\ (events' # events)
              <=> (endsWithMarker(buffer) \/ ch.finish_reason = "stop")
          /\ events' # events =>
               /\ Len(events') = Len(events) + 1
               /\ events'[Len(events')].partialResponse = trim(buffer)]_vars

\* A chunk with a marker inside its text was received without an emission,
\* and the next chunk, ending with the marker, emitted both.
C17_Witness ==
  /\ Len(calls[1].sent) = 2
  /\ calls[1].sent[1] = Chunk(<<"a", Marker, "b">>, "null")
  /\ calls[1].sent[2] = Chunk(<<"c", Marker>>, "null")
  /\ textsOf(attemptReplies(1)) = << <<"a", Marker, "b", "c", Marker>> >>

\* ------------------------------------------------------------------- C18
\* C18: every assistant turn after the seed greeting stands right after a
\* submitted turn (the turn of the call that produced it), whatever the owner
\* of the session does while the call awaits the provider.
C18_AnswerFollowsTurn ==
  \A i \in 3..Len(userContext) :
    userContext[i].role = "assistant" =>
      /\ i >= 4
      /\ userContext[i - 1].role \in Roles
      /\ userContext[i - 1].content \in Texts

\* ------------------------------------------------------------------- C19
noSpace(text) == SelectSeq(text, LAMBDA ch : ch \notin WhiteSpace)
RECURSIVE Flatten(_)
Flatten(texts) ==
  IF texts = <<>> THEN <<>> ELSE Head(texts) \o Flatten(Tail(texts))

\* C19: when an attempt has completed, the text recorded in the transcript is
\* the text that was emitted: the segments of the attempt, one after the
\* other, hold every fragment received, in order (white space at the cuts
\* apart), for every stream, one that ends without a stop chunk included.
C19_RecordedWasEmitted ==
  succeeded(1) =>
    /\ userContext[Len(userContext)].content = Concat(calls[1].sent)
    /\ noSpace(Flatten(textsOf(attemptReplies(1))))
         = noSpace(Concat(calls[1].sent))

\* ------------------------------------------------------------------- C16
\* C16: shouldResetContext() answers true exactly when the transcript has
\* more than 10 turns (false at 10, true at 11), and the call changes nothing
\* of the session.
C16_TrimSignal ==
  /\ [](lastQuery.asked =>
          /\ lastQuery.answer <=> lastQuery.length > 10
          /\ lastQuery.length = 10 => ~lastQuery.answer
          /\ lastQuery.length = 11 => lastQuery.answer)
  /\ [][lastQuery' # lastQuery =>
          /\ lastQuery'.asked /\ lastQuery'.length = Len(userContext)
          /\ UNCHANGED sessionVars]_vars

\* The owner asked when the transcript had 11 turns, the eleventh being the
\* turn of a call in flight, and was told to reset.
C16_Witness ==
  /\ lastQuery = [asked |-> TRUE, length |-> 11, answer |-> TRUE]
  /\ Len(userContext) = 11
  /\ \E c \in CallIds : inFlight(c)

\* ------------------------------------------------------------------- C20
\* C20: a handlePlayClick() with blank text changes nothing of the page; with
\* other text it sets isLoading, or, when the window offers no speech API or
\* the API throws, leaves it reset with nothing started; and whenever
\* isLoading is set it is reset later, by an end or error event or by a
\* timer, even if the engine never reports anything.
C20_LoadingReturns ==
  /\ [][clicks' # clicks =>
          IF trim(pageText) = <<>>
            THEN UNCHANGED <<pageText, isLoading, window, pending>>
            ELSE \/ isLoading' /\ window # "none" /\ pending' # pending
                 \/ ~isLoading' /\ pending' = pending]_vars
  /\ isLoading ~> ~isLoading

\* Play was clicked with text in a window with chrome.tts; the engine never
\* reported an event, the callback ran and the timer has reset isLoading.
C20_Witness ==
  /\ window = "tts" /\ clicks > 0 /\ ~isLoading
  /\ pending.queued > 0 /\ pending.speaking = 0
  /\ pending.callbacks = 0 /\ pending.timers[callbackDelay] = 0

====
